---- MODULE Spec2Model ----
(***************************************************************************)
(* MegaMolBART: batch assembly (nemo_chem/data/augment.py) and greedy      *)
(* decoding / trimming (nemo_chem/models/megamolbart/megamolbart_model.py).*)
(*                                                                         *)
(* Five specifications share the variables below:                          *)
(*   SpecCollate  MoleculeEnumeration.collate_fn on the tokenizer's output *)
(*   SpecDecode   MegaMolBARTModel.decode and sample_molecules             *)
(*   SpecAugment  MoleculeEnumeration._smiles_augmeter_func                *)
(*   SpecMolAcc   MegaMolBARTModel.calculate_molecular_accuracy            *)
(*   SpecCharAcc  MegaMolBARTModel.calculate_character_accuracy            *)
(* Python lists are 0-based, the sequences here 1-based: position j of the *)
(* code is position j + 1 of the model.                                    *)
(***************************************************************************)
EXTENDS Integers, Sequences, FiniteSets, TLC

VARIABLES
    pc,               \* position of the modelled call
    cfg,              \* MoleculeEnumeration fields and collate_fn's label_pad
    tokenizer_out,    \* tokenizer.tokenize(...) results, encoder and decoder role
    encoder_dict,     \* _prepare_tokens result, encoder role
    decoder_dict,     \* _prepare_tokens result, decoder role
    collate_output,   \* the dictionary collate_fn returns
    batch_size,       \* tokens_enc.size(0) of decode
    num_tokens_to_generate,  \* decode's generation budget
    step,             \* iterations of decode's loop completed
    predicted_tokens_dec,    \* decode's partial sequences, one per batch item
    dec_mask,         \* decode's decoder mask of the latest iteration
    token_logits,     \* per item, the last-position logits of each iteration
    log_probs,        \* "unbound" until the loop body assigns it
    predicted_tokens_ids,    \* sample_molecules' pruned sequences
    smiles,           \* _smiles_augmeter_func's input string
    augment_data,     \* its augment_data argument
    canonicalize_input,      \* MoleculeEnumeration.canonicalize_input
    atom_order,       \* the shuffled atom order
    render_fails,     \* which MolToSmiles calls raise RuntimeError
    aug_result,       \* what the call returned or raised
    target_smiles,    \* calculate_molecular_accuracy's target strings
    molecular_result, \* its counts: num_correct, num_invalid, total
    char_batch,       \* calculate_character_accuracy's arguments
    char_result       \* its counts: num_correct, total

collateVars == <<cfg, tokenizer_out, encoder_dict, decoder_dict, collate_output>>

decodeVars == <<batch_size, num_tokens_to_generate, step, predicted_tokens_dec,
                dec_mask, token_logits, log_probs, predicted_tokens_ids>>

augmentVars == <<smiles, augment_data, canonicalize_input, atom_order,
                 render_fails, aug_result>>

accuracyVars == <<target_smiles, molecular_result, char_batch, char_result>>

vars == <<pc, collateVars, decodeVars, augmentVars, accuracyVars>>

(***************************************************************************)
(* Bounds of the model.                                                    *)
(***************************************************************************)
MaxBatch == 2
MaxTokens == 9
MaxSteps == 2
MaxAtoms == 3

(***************************************************************************)
(* Tokenizer vocabulary (nemo_chem.tokenizer.MolEncTokenizer): fixed       *)
(* integers pad_id, bos_id, eos_id, vocab_size and the token -> id map.    *)
(***************************************************************************)
pad_id == 0
bos_id == 1
eos_id == 2
vocab_size == 6

Vocabulary ==
    [t \in {"<PAD>", "^", "&", "<MASK>", "C", "O"} |->
        CASE t = "<PAD>" -> pad_id
          [] t = "^" -> bos_id
          [] t = "&" -> eos_id
          [] t = "<MASK>" -> 3
          [] t = "C" -> 4
          [] t = "O" -> 5]

convert_tokens_to_ids(token_data) ==
    [i \in 1..Len(token_data) |->
        [j \in 1..Len(token_data[i]) |-> Vocabulary[token_data[i][j]]]]

(***************************************************************************)
(* Helpers for Python list operations.                                     *)
(***************************************************************************)
Max(S) == CHOOSE m \in S : \A x \in S : x <= m

Min2(a, b) == IF a <= b THEN a ELSE b

Max2(a, b) == IF a >= b THEN a ELSE b

\* seq[:n] of Python: a negative n counts from the end.
PySliceTo(seq, n) ==
    IF n >= 0 THEN SubSeq(seq, 1, Min2(n, Len(seq)))
    ELSE SubSeq(seq, 1, Max2(0, Len(seq) + n))

\* [x] * n of Python.
Repeat(x, n) == [k \in 1..n |-> x]

\* Mutant of CeilTo8: always moves on to the following multiple of 8.
CeilTo8Next(n) == ((n \div 8) + 1) * 8

\* int(math.ceil(n / 8) * 8)
CeilTo8(n) == ((n + 7) \div 8) * 8

(***************************************************************************)
(* _check_seq_len                                                          *)
(***************************************************************************)
\* Mutant of CheckSeqLen: the cut is triggered by the shortest sequence.
CheckSeqLenShortest(tokens, mask, seq_length) ==
    LET seq_len == -Max({-Len(tokens[i]) : i \in 1..Len(tokens)})
    IN  IF seq_len > seq_length
        THEN [tokens |-> [i \in 1..Len(tokens) |-> PySliceTo(tokens[i], seq_length)],
              mask |-> [i \in 1..Len(mask) |-> PySliceTo(mask[i], seq_length)]]
        ELSE [tokens |-> tokens, mask |-> mask]

\* Mutant of CheckSeqLen: the masks are returned uncut.
CheckSeqLenTokensOnly(tokens, mask, seq_length) ==
    LET seq_len == Max({Len(tokens[i]) : i \in 1..Len(tokens)})
    IN  IF seq_len > seq_length
        THEN [tokens |-> [i \in 1..Len(tokens) |-> PySliceTo(tokens[i], seq_length)],
              mask |-> mask]
        ELSE [tokens |-> tokens, mask |-> mask]

CheckSeqLen(tokens, mask, seq_length) ==
    LET seq_len == Max({Len(tokens[i]) : i \in 1..Len(tokens)})
    IN  IF seq_len > seq_length
        THEN [tokens |-> [i \in 1..Len(tokens) |-> PySliceTo(tokens[i], seq_length)],
              mask |-> [i \in 1..Len(mask) |-> PySliceTo(mask[i], seq_length)]]
        ELSE [tokens |-> tokens, mask |-> mask]

(***************************************************************************)
(* _prepare_tokens, from the tokenizer's result on (lines 117-131).        *)
(***************************************************************************)
PrepareTokens(token_output, mask_data, seq_length) ==
    LET tokens == IF mask_data THEN token_output.masked_tokens
                  ELSE token_output.original_tokens
        mask == IF mask_data THEN token_output.token_masks
                ELSE [i \in 1..Len(tokens) |-> Repeat(TRUE, Len(tokens[i]))]
    IN  CheckSeqLen(tokens, mask, seq_length)

(***************************************************************************)
(* _pad_seqs                                                               *)
(***************************************************************************)
PadLength(seqs, divisible_by_8) ==
    LET pad_length == Max({Len(seqs[i]) : i \in 1..Len(seqs)})
    IN  IF divisible_by_8 THEN CeilTo8(pad_length) ELSE pad_length

PadSeqs(seqs, pad_token, divisible_by_8) ==
    LET pad_length == PadLength(seqs, divisible_by_8)
    IN  [padded |-> [i \in 1..Len(seqs) |->
                        seqs[i] \o Repeat(pad_token, pad_length - Len(seqs[i]))],
         masks |-> [i \in 1..Len(seqs) |->
                        Repeat(1, Len(seqs[i])) \o Repeat(0, pad_length - Len(seqs[i]))]]

(***************************************************************************)
(* label_token_ids[~loss_mask.to(torch.bool)] = label_pad                  *)
(***************************************************************************)
\* Mutant of FillInactive: the default sentinel -1 whatever label_pad is.
FillInactiveDefault(label_token_ids, loss_mask, label_pad) ==
    [i \in 1..Len(label_token_ids) |->
        [j \in 1..Len(label_token_ids[i]) |->
            IF loss_mask[i][j] = 0 THEN -1 ELSE label_token_ids[i][j]]]

FillInactive(label_token_ids, loss_mask, label_pad) ==
    [i \in 1..Len(label_token_ids) |->
        [j \in 1..Len(label_token_ids[i]) |->
            IF loss_mask[i][j] = 0 THEN label_pad ELSE label_token_ids[i][j]]]

(***************************************************************************)
(* collate_fn                                                              *)
(***************************************************************************)
\* Mutant of LabelIds: the labels are built after bos_id was prepended.
LabelIdsAfterBos(dec_token_ids) ==
    [i \in 1..Len(dec_token_ids) |-> (<<bos_id>> \o dec_token_ids[i]) \o <<eos_id>>]

\* label_ids = [example + [eos_id] for example in dec_token_ids]
LabelIds(dec_token_ids) ==
    [i \in 1..Len(dec_token_ids) |-> Append(dec_token_ids[i], eos_id)]

\* dec_token_ids = [[bos_id] + example for example in dec_token_ids]
DecInputIds(dec_token_ids) ==
    [i \in 1..Len(dec_token_ids) |-> <<bos_id>> \o dec_token_ids[i]]

CollateOutput(enc_dict, dec_dict) ==
    LET enc_token_ids == convert_tokens_to_ids(enc_dict.tokens)
        enc_padded == PadSeqs(enc_token_ids, pad_id, cfg.pad_size_divisible_by_8)
        dec_token_ids == convert_tokens_to_ids(dec_dict.tokens)
        label_ids == LabelIds(dec_token_ids)
        dec_with_bos == DecInputIds(dec_token_ids)
        dec_padded == PadSeqs(dec_with_bos, pad_id, cfg.pad_size_divisible_by_8)
        label_padded == PadSeqs(label_ids, pad_id, cfg.pad_size_divisible_by_8)
    IN  [text_enc |-> enc_padded.padded,
         enc_mask |-> enc_padded.masks,
         text_dec |-> dec_padded.padded,
         dec_mask |-> dec_padded.masks,
         labels |-> FillInactive(label_padded.padded, label_padded.masks, cfg.label_pad),
         loss_mask |-> label_padded.masks]

CollateFn ==
    /\ pc = "collate"
    /\ LET enc_dict == PrepareTokens(tokenizer_out.enc, cfg.encoder_mask, cfg.seq_length)
           dec_dict == PrepareTokens(tokenizer_out.dec, cfg.decoder_mask, cfg.seq_length)
       IN  /\ encoder_dict' = enc_dict
           /\ decoder_dict' = dec_dict
           /\ collate_output' = CollateOutput(enc_dict, dec_dict)
    /\ pc' = "collated"
    /\ UNCHANGED <<cfg, tokenizer_out>>
    /\ UNCHANGED decodeVars
    /\ UNCHANGED augmentVars
    /\ UNCHANGED accuracyVars

(***************************************************************************)
(* Inputs of collate_fn: the configuration and what the tokenizer returns  *)
(* for the batch in each role (token counts around the multiple of 8).     *)
(* The two roles are tokenized from separately augmented strings, so their *)
(* token counts are drawn independently.  The strings themselves, and with *)
(* them target_smiles, are the subject of SpecAugment.                     *)
(***************************************************************************)
TokenCounts == {1, MaxTokens - 2, MaxTokens - 1, MaxTokens}

SeqLengths == {0, 1, MaxTokens - 1, MaxTokens}

LabelPads == {-1, -100}

\* Tokens of item i with n tokens: "C" and "O" alternating, shifted by i.
SampleTokens(n, i) == [p \in 1..n |-> IF (p + i) % 2 = 0 THEN "C" ELSE "O"]

\* The tokenizer's masking of item i: every second token, shifted by i.
SampleMasks(n, i) == [p \in 1..n |-> (p + i) % 2 = 1]

TokenizeResult(lens, mask_data) ==
    LET original == [i \in 1..Len(lens) |-> SampleTokens(lens[i], i)]
    IN  [original_tokens |-> original,
         masked_tokens |->
            [i \in 1..Len(lens) |->
                [p \in 1..lens[i] |->
                    IF mask_data /\ SampleMasks(lens[i], i)[p]
                    THEN "<MASK>" ELSE original[i][p]]],
         token_masks |->
            [i \in 1..Len(lens) |->
                [p \in 1..lens[i] |-> mask_data /\ SampleMasks(lens[i], i)[p]]]]

NoDict == [tokens |-> <<>>, mask |-> <<>>]

NoOutput == [text_enc |-> <<>>, enc_mask |-> <<>>, text_dec |-> <<>>,
             dec_mask |-> <<>>, labels |-> <<>>, loss_mask |-> <<>>]

NoRenderFails == [canonical |-> FALSE, augmented |-> FALSE, plain |-> FALSE]

NoResult == [raised |-> "none", aug_smiles |-> <<>>, canon_smiles |-> <<>>]

\* The augmenter is not in use.
AugmentIdle ==
    /\ smiles = <<>>
    /\ augment_data = FALSE
    /\ canonicalize_input = FALSE
    /\ atom_order = <<>>
    /\ render_fails = NoRenderFails
    /\ aug_result = NoResult

NoMolecularResult == [num_correct |-> 0, num_invalid |-> 0, total |-> 0,
                      invalid |-> <<>>, correct |-> <<>>]

NoCharBatch == [token_logits |-> <<>>, labels |-> <<>>, loss_mask |-> <<>>]

NoCharResult == [num_correct |-> 0, total |-> 0]

\* The accuracy functions are not in use.
AccuracyIdle ==
    /\ target_smiles = <<>>
    /\ molecular_result = NoMolecularResult
    /\ char_batch = NoCharBatch
    /\ char_result = NoCharResult

\* The decoder is not in use.
DecodeIdle ==
    /\ batch_size = 0
    /\ num_tokens_to_generate = 0
    /\ step = 0
    /\ predicted_tokens_dec = <<>>
    /\ dec_mask = <<>>
    /\ token_logits = <<>>
    /\ log_probs = "unbound"
    /\ predicted_tokens_ids = <<>>

InitCollate ==
    /\ pc = "collate"
    /\ \E b \in 1..MaxBatch :
       \E enc_lens \in [1..b -> TokenCounts], dec_lens \in [1..b -> TokenCounts] :
       \E sl \in SeqLengths, d8 \in BOOLEAN, lp \in LabelPads :
       \E em \in BOOLEAN, dm \in BOOLEAN :
          /\ cfg = [seq_length |-> sl, pad_size_divisible_by_8 |-> d8, label_pad |-> lp,
                    encoder_mask |-> em, decoder_mask |-> dm]
          /\ tokenizer_out = [enc |-> TokenizeResult(enc_lens, em),
                              dec |-> TokenizeResult(dec_lens, dm)]
    /\ encoder_dict = NoDict
    /\ decoder_dict = NoDict
    /\ collate_output = NoOutput
    /\ DecodeIdle
    /\ AugmentIdle
    /\ AccuracyIdle

NextCollate == CollateFn

SpecCollate == InitCollate /\ [][NextCollate]_vars

(***************************************************************************)
(* decode: the model's output.  The network is outside this repository; a  *)
(* row gives, for one batch item, the logits of the last position over the *)
(* padded vocabulary (ids vocab_size and above are unused padding of the   *)
(* embedding table).  Logit values are 1..3; NegInf stands for -inf.       *)
(***************************************************************************)
NegInf == 0

PaddedVocabSize == vocab_size + 1

Ids == 0..(PaddedVocabSize - 1)

\* Rows the model is taken to produce: pad_id is the most probable id; eos_id
\* and "C" tie for the most probable one; a padding id beyond vocab_size is the
\* most probable one with "C" second; no id below vocab_size has a finite logit.
LogitRows ==
    { [v \in Ids |-> IF v = pad_id THEN 2 ELSE 1],
      [v \in Ids |-> IF v \in {eos_id, Vocabulary["C"]} THEN 2 ELSE 1],
      [v \in Ids |-> IF v >= vocab_size THEN 3 ELSE IF v = Vocabulary["C"] THEN 2 ELSE 1],
      [v \in Ids |-> IF v >= vocab_size THEN 1 ELSE NegInf] }

\* Mutant of MaskPaddedIds: the logits are left as the model gave them.
MaskPaddedIdsNoop(row) == row

\* token_logits[:, :, vocab_size:] = -float('Inf')
MaskPaddedIds(row) == [v \in Ids |-> IF v >= vocab_size THEN NegInf ELSE row[v]]

\* torch.max(log_softmax(row)): the first index of the largest value.  When
\* every logit is -inf, log_softmax yields NaN throughout and the index is
\* what the kernel makes of it: the first index, or one of the padding range.
GreedyIds(row) ==
    IF \A v \in Ids : row[v] = NegInf
    THEN {0, vocab_size}
    ELSE {CHOOSE k \in Ids :
            /\ \A v \in Ids : row[v] <= row[k]
            /\ \A v \in 0..(k - 1) : row[v] < row[k]}

\* Mutant of PadMask: the mask marks eos_id instead of pad_id.
PadMaskOnEos(seqs) ==
    [i \in 1..Len(seqs) |-> [j \in 1..Len(seqs[i]) |-> seqs[i][j] # eos_id]]

\* dec_mask = predicted_tokens_dec != pad_id
PadMask(seqs) ==
    [i \in 1..Len(seqs) |-> [j \in 1..Len(seqs[i]) |-> seqs[i][j] # pad_id]]

\* TRUE when every item already holds eos_id.
AllEmittedEos == \A i \in 1..batch_size :
                    \E j \in 1..Len(predicted_tokens_dec[i]) : predicted_tokens_dec[i][j] = eos_id

\* Mutant of LoopContinues: the loop ends once every item has emitted eos_id.
LoopContinuesUntilEos == step < num_tokens_to_generate /\ ~AllEmittedEos

\* for _ in range(num_tokens_to_generate)
LoopContinues == step < num_tokens_to_generate

\* Lines 210-224: encode once, start every item with bos_id.
DecodeStart ==
    /\ pc = "decode"
    /\ predicted_tokens_dec' = [i \in 1..batch_size |-> <<bos_id>>]
    /\ step' = 0
    /\ pc' = "loop"
    /\ UNCHANGED <<batch_size, num_tokens_to_generate, dec_mask, token_logits,
                   log_probs, predicted_tokens_ids>>
    /\ UNCHANGED collateVars
    /\ UNCHANGED augmentVars
    /\ UNCHANGED accuracyVars

\* What one item can get in an iteration: a row of the model and an id the
\* greedy choice can make of it.
StepChoices ==
    UNION { { <<row, k>> : k \in GreedyIds(MaskPaddedIds(row)) } : row \in LogitRows }

\* Lines 226-242: one iteration of the loop.
DecodeStep ==
    /\ pc = "loop"
    /\ LoopContinues
    /\ dec_mask' = PadMask(predicted_tokens_dec)
    /\ \E choice \in [1..batch_size -> StepChoices] :
          /\ token_logits' =
                [i \in 1..batch_size |-> Append(token_logits[i], choice[i][1])]
          /\ predicted_tokens_dec' =
                [i \in 1..batch_size |-> Append(predicted_tokens_dec[i], choice[i][2])]
    /\ log_probs' = "bound"
    /\ step' = step + 1
    /\ UNCHANGED <<pc, batch_size, num_tokens_to_generate, predicted_tokens_ids>>
    /\ UNCHANGED collateVars
    /\ UNCHANGED augmentVars
    /\ UNCHANGED accuracyVars

\* Line 244: return predicted_tokens_dec, log_probs.  log_probs is assigned
\* only inside the loop: with no iteration the return raises UnboundLocalError.
DecodeReturn ==
    /\ pc = "loop"
    /\ ~LoopContinues
    /\ pc' = IF log_probs = "unbound" THEN "raised" ELSE "returned"
    /\ UNCHANGED decodeVars
    /\ UNCHANGED collateVars
    /\ UNCHANGED augmentVars
    /\ UNCHANGED accuracyVars

(***************************************************************************)
(* sample_molecules, lines 263-270: prune by eos / padding.                *)
(***************************************************************************)
\* list.index(x): the 0-based position of the first x.
IndexOf(seq, x) ==
    (CHOOSE k \in 1..Len(seq) : seq[k] = x /\ \A j \in 1..(k - 1) : seq[j] # x) - 1

\* [id for id in seq if id != x]
RECURSIVE Without(_, _)
Without(seq, x) ==
    IF seq = <<>> THEN <<>>
    ELSE IF Head(seq) = x THEN Without(Tail(seq), x)
    ELSE <<Head(seq)>> \o Without(Tail(seq), x)

\* Mutant of Prune: without eos_id the sequence is returned as it is.
PruneAtEosOnly(seq) ==
    IF \E j \in 1..Len(seq) : seq[j] = eos_id
    THEN PySliceTo(seq, IndexOf(seq, eos_id))
    ELSE seq

\* Mutant of Prune: pad ids are removed in both branches.
PruneBoth(seq) ==
    IF \E j \in 1..Len(seq) : seq[j] = eos_id
    THEN Without(PySliceTo(seq, IndexOf(seq, eos_id)), pad_id)
    ELSE Without(seq, pad_id)

Prune(seq) ==
    IF \E j \in 1..Len(seq) : seq[j] = eos_id
    THEN PySliceTo(seq, IndexOf(seq, eos_id))
    ELSE Without(seq, pad_id)

SampleMoleculesPrune ==
    /\ pc = "returned"
    /\ predicted_tokens_ids' = [i \in 1..batch_size |-> Prune(predicted_tokens_dec[i])]
    /\ pc' = "pruned"
    /\ UNCHANGED <<batch_size, num_tokens_to_generate, step, predicted_tokens_dec,
                   dec_mask, token_logits, log_probs>>
    /\ UNCHANGED collateVars
    /\ UNCHANGED augmentVars
    /\ UNCHANGED accuracyVars

CollateIdle ==
    /\ cfg = [seq_length |-> 0, pad_size_divisible_by_8 |-> FALSE, label_pad |-> -1,
              encoder_mask |-> FALSE, decoder_mask |-> FALSE]
    /\ tokenizer_out = [enc |-> TokenizeResult(<<>>, FALSE),
                        dec |-> TokenizeResult(<<>>, FALSE)]
    /\ encoder_dict = NoDict
    /\ decoder_dict = NoDict
    /\ collate_output = NoOutput

InitDecode ==
    /\ pc = "decode"
    /\ batch_size \in 1..MaxBatch
    /\ num_tokens_to_generate \in 0..MaxSteps
    /\ step = 0
    /\ predicted_tokens_dec = <<>>
    /\ dec_mask = <<>>
    /\ token_logits = [i \in 1..batch_size |-> <<>>]
    /\ log_probs = "unbound"
    /\ predicted_tokens_ids = <<>>
    /\ CollateIdle
    /\ AugmentIdle
    /\ AccuracyIdle

NextDecode ==
    \/ DecodeStart
    \/ DecodeStep
    \/ DecodeReturn
    \/ SampleMoleculesPrune

SpecDecode == InitDecode /\ [][NextDecode]_vars

(***************************************************************************)
(* _smiles_augmeter_func.  RDKit is outside this repository: a molecule is *)
(* an unbranched chain of atoms, a string one character per list element.  *)
(* chain[p] is the symbol at chain position p, idx[p] the index of that    *)
(* atom (RDKit's 0-based index plus one).                                  *)
(***************************************************************************)
AtomSymbols == {"C", "O"}

None == [chain |-> <<"None">>, idx |-> <<0>>]

Reverse(seq) == [p \in 1..Len(seq) |-> seq[Len(seq) + 1 - p]]

\* Chem.MolFromSmiles: None for a string that is no chain of atom symbols; the
\* empty string parses, to the molecule without atoms.
MolFromSmiles(str) ==
    IF \A p \in 1..Len(str) : str[p] \in AtomSymbols
    THEN [chain |-> str, idx |-> [p \in 1..Len(str) |-> p]]
    ELSE None

GetNumAtoms(mol) == Len(mol.chain)

\* Chem.RenumberAtoms(mol, newOrder): the atom of index newOrder[i] gets index i.
RenumberAtoms(mol, newOrder) ==
    [chain |-> mol.chain,
     idx |-> [p \in 1..Len(mol.chain) |->
                CHOOSE i \in 1..Len(newOrder) : newOrder[i] = mol.idx[p]]]

\* Chem.MolToSmiles(mol, canonical=False): written from the atom of index 0,
\* the neighbour of lower index as a branch when that atom is inside the chain.
NonCanonicalSmiles(mol) ==
    IF GetNumAtoms(mol) = 0 THEN <<>>
    ELSE LET n == GetNumAtoms(mol)
             p == CHOOSE q \in 1..n : mol.idx[q] = 1
             left == Reverse(SubSeq(mol.chain, 1, p - 1))
             right == SubSeq(mol.chain, p + 1, n)
         IN  IF left = <<>> THEN <<mol.chain[p]>> \o right
             ELSE IF right = <<>> THEN <<mol.chain[p]>> \o left
             ELSE IF mol.idx[p - 1] < mol.idx[p + 1]
                  THEN <<mol.chain[p], "(">> \o left \o <<")">> \o right
                  ELSE <<mol.chain[p], "(">> \o right \o <<")">> \o left

SymbolRank(a) == IF a = "C" THEN 1 ELSE 2

\* a before b in the order of the symbols, for strings of one length.
LexBefore(a, b) ==
    \E p \in 1..Len(a) :
        /\ SymbolRank(a[p]) < SymbolRank(b[p])
        /\ \A q \in 1..(p - 1) : a[q] = b[q]

\* Chem.MolToSmiles(mol, canonical=True): one string per molecule, whatever
\* the atom indices and the direction the input was written in.
CanonicalSmiles(mol) ==
    IF LexBefore(Reverse(mol.chain), mol.chain) THEN Reverse(mol.chain) ELSE mol.chain

\* Mutant of FallbackSmiles: the input string as it came.
FallbackSmilesRaw(str, mol, canon_smiles, canonicalize) == str

\* Line 71: aug_smiles = canon_smiles if canonicalize_input else MolToSmiles(mol, canonical=True)
FallbackSmiles(str, mol, canon_smiles, canonicalize) ==
    IF canonicalize THEN canon_smiles ELSE CanonicalSmiles(mol)

Raise(exc) == [raised |-> exc, aug_smiles |-> <<>>, canon_smiles |-> <<>>]

\* Lines 75-77: the two assertions, then the return.
AssertAndReturn(aug, canon) ==
    IF Len(aug) = 0 \/ Len(canon) = 0 THEN Raise("AssertionError")
    ELSE [raised |-> "none", aug_smiles |-> aug, canon_smiles |-> canon]

\* Lines 55-77 for one input, one shuffled order and one outcome of each
\* MolToSmiles call (fails.canonical: canonical rendering of mol, lines 56 and
\* 71; fails.augmented: line 68; fails.plain: line 73).
SmilesAugmeterFuncResult(str, augment, canonicalize, order, fails) ==
    LET mol == MolFromSmiles(str)
        canon == IF canonicalize THEN CanonicalSmiles(mol) ELSE str
    IN  IF canonicalize /\ mol = None THEN Raise("ArgumentError")
        ELSE IF canonicalize /\ fails.canonical THEN Raise("RuntimeError")
        ELSE IF augment
        THEN IF mol = None THEN Raise("AttributeError")
             ELSE IF ~fails.augmented
             THEN AssertAndReturn(NonCanonicalSmiles(RenumberAtoms(mol, order)), canon)
             ELSE IF ~canonicalize /\ fails.canonical THEN Raise("RuntimeError")
             ELSE AssertAndReturn(FallbackSmiles(str, mol, canon, canonicalize), canon)
        ELSE IF mol = None THEN Raise("ArgumentError")
             ELSE IF fails.plain THEN Raise("RuntimeError")
             ELSE AssertAndReturn(NonCanonicalSmiles(mol), canon)

\* list(range(n)) after np.random.shuffle: any order of the atom indices.
AtomOrders(n) ==
    {f \in [1..n -> 1..n] : \A a, b \in 1..n : f[a] = f[b] => a = b}

SmilesAugmeterFunc ==
    /\ pc = "augment"
    /\ \E fails \in [canonical : BOOLEAN, augmented : BOOLEAN, plain : BOOLEAN] :
       \E order \in (IF augment_data /\ MolFromSmiles(smiles) # None
                     THEN AtomOrders(GetNumAtoms(MolFromSmiles(smiles)))
                     ELSE {<<>>}) :
          /\ atom_order' = order
          /\ render_fails' = fails
          /\ aug_result' = SmilesAugmeterFuncResult(smiles, augment_data, canonicalize_input,
                                               order, fails)
    /\ pc' = IF aug_result'.raised = "none" THEN "augmented" ELSE "augment_raised"
    /\ UNCHANGED <<smiles, augment_data, canonicalize_input>>
    /\ UNCHANGED collateVars
    /\ UNCHANGED decodeVars
    /\ UNCHANGED accuracyVars

\* Input strings: every chain of up to MaxAtoms atoms, the empty string and a
\* string that does not parse.
RECURSIVE Strings(_)
Strings(n) ==
    IF n = 0 THEN {<<>>}
    ELSE Strings(n - 1) \cup
         {Append(w, a) : w \in {v \in Strings(n - 1) : Len(v) = n - 1}, a \in AtomSymbols}

InitAugment ==
    /\ pc = "augment"
    /\ smiles \in Strings(MaxAtoms) \cup {<<"?">>}
    /\ augment_data \in BOOLEAN
    /\ canonicalize_input \in BOOLEAN
    /\ atom_order = <<>>
    /\ render_fails = NoRenderFails
    /\ aug_result = NoResult
    /\ CollateIdle
    /\ DecodeIdle
    /\ AccuracyIdle

NextAugment == SmilesAugmeterFunc

SpecAugment == InitAugment /\ [][NextAugment]_vars

(***************************************************************************)
(* calculate_molecular_accuracy, after sample_molecules pruned the ids.    *)
(***************************************************************************)
\* tokenizer.ids_to_tokens: the token of each id; an id without a token (the
\* padding range of the logits) gives the unknown token.
ids_to_tokens(token_ids) ==
    [i \in 1..Len(token_ids) |->
        [j \in 1..Len(token_ids[i]) |->
            IF \E t \in DOMAIN Vocabulary : Vocabulary[t] = token_ids[i][j]
            THEN CHOOSE t \in DOMAIN Vocabulary : Vocabulary[t] = token_ids[i][j]
            ELSE "?"]]

\* tokenizer.tokens_to_text: the tokens joined, without the leading begin token.
tokens_to_text(token_data) ==
    [i \in 1..Len(token_data) |->
        IF Len(token_data[i]) > 0 /\ token_data[i][1] = "^"
        THEN Tail(token_data[i]) ELSE token_data[i]]

\* The string "Unknown".
UnknownMarker == <<"U", "n", "k", "n", "o", "w", "n">>

\* Line 316: "Unknown" if mol is None else Chem.MolToSmiles(mol, canonical=True)
CanonicalOrUnknown(mol) == IF mol = None THEN UnknownMarker ELSE CanonicalSmiles(mol)

\* sum(list of booleans)
RECURSIVE CountTrue(_)
CountTrue(flags) ==
    IF flags = <<>> THEN 0
    ELSE (IF Head(flags) THEN 1 ELSE 0) + CountTrue(Tail(flags))

\* Lines 313-321 on the strings sample_molecules returned.
MolecularCounts(sampled_smiles, targets) ==
    LET sampled_mols == [i \in 1..Len(sampled_smiles) |-> MolFromSmiles(sampled_smiles[i])]
        invalid == [i \in 1..Len(sampled_mols) |-> sampled_mols[i] = None]
        canonical_smiles ==
            [i \in 1..Len(sampled_mols) |-> CanonicalOrUnknown(sampled_mols[i])]
        correct_smiles ==
            [i \in 1..Len(canonical_smiles) |-> targets[i] = canonical_smiles[i]]
    IN  [num_correct |-> CountTrue(correct_smiles),
         num_invalid |-> CountTrue(invalid),
         total |-> Len(correct_smiles),
         invalid |-> invalid,
         correct |-> correct_smiles]

\* Target strings of a batch: molecules the decoder can reach, and the string
\* "Unknown".
TargetStrings == {<<"C">>, <<"C", "C">>, UnknownMarker}

\* Lines 272-273 and 313-325: the strings of the pruned ids, the counts and the
\* two divisions by total.
CalculateMolecularAccuracy ==
    /\ pc = "pruned"
    /\ \E targets \in [1..batch_size -> TargetStrings] :
          /\ target_smiles' = targets
          /\ molecular_result' =
                MolecularCounts(tokens_to_text(ids_to_tokens(predicted_tokens_ids)), targets)
    /\ pc' = IF molecular_result'.total = 0 THEN "raised" ELSE "accuracy"
    /\ UNCHANGED <<char_batch, char_result>>
    /\ UNCHANGED decodeVars
    /\ UNCHANGED collateVars
    /\ UNCHANGED augmentVars

NextMolAcc ==
    \/ DecodeStart
    \/ DecodeStep
    \/ DecodeReturn
    \/ SampleMoleculesPrune
    \/ CalculateMolecularAccuracy

SpecMolAcc == InitDecode /\ [][NextMolAcc]_vars

(***************************************************************************)
(* calculate_character_accuracy.                                           *)
(***************************************************************************)
\* Positions per row of the batches given to calculate_character_accuracy.
MaxPositions == 6

\* torch.max(token_logits, dim=2) on one position: the first index of the
\* largest logit.
ArgMaxId(row) ==
    CHOOSE k \in Ids :
        /\ \A v \in Ids : row[v] <= row[k]
        /\ \A v \in 0..(k - 1) : row[v] < row[k]

\* Sum of the function f over the positions 1..n.
RECURSIVE SumTo(_, _)
SumTo(f, n) == IF n = 0 THEN 0 ELSE f[n] + SumTo(f, n - 1)

\* tensor.sum() of a batch of rows of integers.
TensorSum(rows) ==
    SumTo([i \in 1..Len(rows) |-> SumTo(rows[i], Len(rows[i]))], Len(rows))

\* Mutant of CharacterCounts: torch.eq is not multiplied by loss_mask.
CharacterCountsUnmasked(logits, labels, loss_mask) ==
    LET predicted_tokens ==
            [i \in 1..Len(logits) |-> [j \in 1..Len(logits[i]) |-> ArgMaxId(logits[i][j])]]
        correct_tokens ==
            [i \in 1..Len(labels) |->
                [j \in 1..Len(labels[i]) |->
                    IF labels[i][j] = predicted_tokens[i][j] THEN 1 ELSE 0]]
    IN  [num_correct |-> TensorSum(correct_tokens), total |-> TensorSum(loss_mask)]

\* Lines 291-296: the argmax ids, torch.eq(labels, predicted_tokens) * loss_mask,
\* and the two sums.
CharacterCounts(logits, labels, loss_mask) ==
    LET predicted_tokens ==
            [i \in 1..Len(logits) |-> [j \in 1..Len(logits[i]) |-> ArgMaxId(logits[i][j])]]
        correct_tokens ==
            [i \in 1..Len(labels) |->
                [j \in 1..Len(labels[i]) |->
                    (IF labels[i][j] = predicted_tokens[i][j] THEN 1 ELSE 0)
                        * loss_mask[i][j]]]
    IN  [num_correct |-> TensorSum(correct_tokens), total |-> TensorSum(loss_mask)]

\* Lines 291-298: the counts and their quotient, kept as the pair
\* (num_correct, total).  A batch without an active position divides by zero.
CalculateCharacterAccuracy ==
    /\ pc = "char_accuracy"
    /\ char_result' =
          CharacterCounts(char_batch.token_logits, char_batch.labels, char_batch.loss_mask)
    /\ pc' = IF char_result'.total = 0 THEN "char_raised" ELSE "char_returned"
    /\ UNCHANGED <<target_smiles, molecular_result, char_batch>>
    /\ UNCHANGED decodeVars
    /\ UNCHANGED collateVars
    /\ UNCHANGED augmentVars

\* Logits of one position whose largest value is at id k.
PeakAt(k) == [v \in Ids |-> IF v = k THEN 2 ELSE 1]

\* Which active positions of a row the model mispredicts.
MissPatterns == {"none", "first", "last", "all"}

\* The label ids of a row: "C" and "O" alternate.
RowLabels == [j \in 1..MaxPositions |-> IF j % 2 = 1 THEN Vocabulary["C"] ELSE Vocabulary["O"]]

\* A row with `active` leading active positions: the model mispredicts the
\* active positions of `miss`, and at the inactive positions predicts the label
\* or not as `inactive_equal` says.
CharRow(active, miss, inactive_equal) ==
    LET missed(j) ==
            \/ miss = "all"
            \/ miss = "first" /\ j = 1
            \/ miss = "last" /\ j = active
    IN  [token_logits |->
            [j \in 1..MaxPositions |->
                IF j <= active
                THEN (IF missed(j) THEN PeakAt(eos_id) ELSE PeakAt(RowLabels[j]))
                ELSE (IF inactive_equal THEN PeakAt(RowLabels[j]) ELSE PeakAt(pad_id))],
         labels |-> RowLabels,
         loss_mask |-> [j \in 1..MaxPositions |-> IF j <= active THEN 1 ELSE 0]]

CharRows ==
    { CharRow(active, miss, inactive_equal) :
        active \in 0..MaxPositions, miss \in MissPatterns, inactive_equal \in BOOLEAN }

InitCharAcc ==
    /\ pc = "char_accuracy"
    /\ \E n \in 1..MaxBatch : \E rows \in [1..n -> CharRows] :
          char_batch = [token_logits |-> [i \in 1..n |-> rows[i].token_logits],
                        labels |-> [i \in 1..n |-> rows[i].labels],
                        loss_mask |-> [i \in 1..n |-> rows[i].loss_mask]]
    /\ target_smiles = <<>>
    /\ molecular_result = NoMolecularResult
    /\ char_result = NoCharResult
    /\ CollateIdle
    /\ DecodeIdle
    /\ AugmentIdle

NextCharAcc == CalculateCharacterAccuracy

SpecCharAcc == InitCharAcc /\ [][NextCharAcc]_vars

(***************************************************************************)
(* Properties of collate_fn.                                               *)
(***************************************************************************)
Collated == pc = "collated"

BatchRows == 1..Len(collate_output.labels)

\* Ids of the tokens _prepare_tokens returned for item i, by role.
EncIds(i) == [p \in 1..Len(encoder_dict.tokens[i]) |-> Vocabulary[encoder_dict.tokens[i][p]]]

DecIds(i) == [p \in 1..Len(decoder_dict.tokens[i]) |-> Vocabulary[decoder_dict.tokens[i][p]]]

\* C1: in collate_fn's output a label at a position with loss_mask 0 is the
\* configured label_pad; a label at a position with loss_mask 1 is the element
\* at that position of (decoder token ids of the item, then eos_id).
C1_LabelsFollowLossMask ==
    Collated =>
        \A i \in BatchRows :
            /\ Len(collate_output.labels[i]) = Len(collate_output.loss_mask[i])
            /\ \A j \in 1..Len(collate_output.labels[i]) :
                /\ collate_output.loss_mask[i][j] \in {0, 1}
                /\ collate_output.loss_mask[i][j] = 0 =>
                        collate_output.labels[i][j] = cfg.label_pad
                /\ collate_output.loss_mask[i][j] = 1 =>
                        /\ j <= Len(DecIds(i)) + 1
                        /\ collate_output.labels[i][j] = (DecIds(i) \o <<eos_id>>)[j]

C1_Witness ==
    /\ Collated
    /\ cfg.label_pad = -100
    /\ \E i \in BatchRows : \E j, k \in 1..Len(collate_output.labels[i]) :
        /\ collate_output.loss_mask[i][j] = 0
        /\ collate_output.loss_mask[i][k] = 1
        /\ collate_output.labels[i][k] = eos_id

\* The width the encoder tensors must have: the largest token count of the
\* batch, or the least multiple of 8 not below it.
EncMaxCount == Max({Len(encoder_dict.tokens[i]) : i \in 1..Len(encoder_dict.tokens)})

EncWidth ==
    IF cfg.pad_size_divisible_by_8
    THEN CHOOSE w \in EncMaxCount..(EncMaxCount + 7) : w % 8 = 0
    ELSE EncMaxCount

\* C2: text_enc and enc_mask have the same width W, the largest encoder token
\* count of the batch rounded up to a multiple of 8 when pad_size_divisible_by_8
\* is set; row i is its n_i token ids then W - n_i pad ids, and its mask is
\* n_i ones then W - n_i zeros.
C2_EncoderPadding ==
    Collated =>
        /\ Len(collate_output.text_enc) = Len(encoder_dict.tokens)
        /\ Len(collate_output.enc_mask) = Len(encoder_dict.tokens)
        /\ \A i \in 1..Len(encoder_dict.tokens) :
            LET n == Len(encoder_dict.tokens[i])
                row == collate_output.text_enc[i]
                msk == collate_output.enc_mask[i]
            IN  /\ Len(row) = EncWidth
                /\ Len(msk) = EncWidth
                /\ \A j \in 1..EncWidth :
                    /\ j <= n => row[j] = EncIds(i)[j] /\ msk[j] = 1
                    /\ j > n => row[j] = pad_id /\ msk[j] = 0

C2_Witness ==
    /\ Collated
    /\ cfg.pad_size_divisible_by_8
    /\ EncMaxCount = 8
    /\ Len(collate_output.text_enc[1]) = 8
    /\ \E i \in 1..Len(encoder_dict.tokens) :
        /\ Len(encoder_dict.tokens[i]) = 1
        /\ collate_output.text_enc[i][2] = pad_id
        /\ collate_output.enc_mask[i][2] = 0

\* C3: every row of text_dec is bos_id then the item's decoder token ids;
\* labels are text_dec shifted left by one with eos_id appended; dec_mask and
\* loss_mask are equal element by element.
C3_DecoderShift ==
    Collated =>
        /\ collate_output.dec_mask = collate_output.loss_mask
        /\ \A i \in BatchRows :
            LET n == Len(DecIds(i))
                dec == collate_output.text_dec[i]
                lab == collate_output.labels[i]
            IN  /\ Len(dec) = Len(lab)
                /\ Len(dec) >= n + 1
                /\ dec[1] = bos_id
                /\ \A j \in 1..n : dec[j + 1] = DecIds(i)[j] /\ dec[j + 1] = lab[j]
                /\ lab[n + 1] = eos_id

C3_Witness ==
    /\ Collated
    /\ Len(collate_output.text_dec) = 2
    /\ Len(DecIds(1)) = 1
    /\ Len(DecIds(2)) >= 7
    /\ collate_output.text_dec[2][3] = collate_output.labels[2][2]
    /\ collate_output.text_dec[1][3] = pad_id

\* What the tokenizer handed to _check_seq_len, by role.
RoleTokens(role, mask_data) ==
    IF mask_data THEN tokenizer_out[role].masked_tokens
    ELSE tokenizer_out[role].original_tokens

RoleMask(role, mask_data) ==
    IF mask_data THEN tokenizer_out[role].token_masks
    ELSE [i \in 1..Len(tokenizer_out[role].original_tokens) |->
            [p \in 1..Len(tokenizer_out[role].original_tokens[i]) |-> TRUE]]

First(seq, n) == [p \in 1..(IF n < Len(seq) THEN n ELSE Len(seq)) |-> seq[p]]

BatchMax(tokens) == Max({Len(tokens[i]) : i \in 1..Len(tokens)})

SeqLenChecked(tokens, mask, out) ==
    IF BatchMax(tokens) > cfg.seq_length
    THEN /\ Len(out.tokens) = Len(tokens)
         /\ Len(out.mask) = Len(mask)
         /\ \A i \in 1..Len(tokens) :
                /\ out.tokens[i] = First(tokens[i], cfg.seq_length)
                /\ out.mask[i] = First(mask[i], cfg.seq_length)
    ELSE out.tokens = tokens /\ out.mask = mask

\* C4: _check_seq_len cuts only when the longest token sequence of the batch
\* exceeds seq_length, and then every token sequence and every mask is cut to
\* its first seq_length positions; otherwise tokens and masks are unchanged.
C4_CheckSeqLen ==
    Collated =>
        /\ SeqLenChecked(RoleTokens("enc", cfg.encoder_mask),
                         RoleMask("enc", cfg.encoder_mask), encoder_dict)
        /\ SeqLenChecked(RoleTokens("dec", cfg.decoder_mask),
                         RoleMask("dec", cfg.decoder_mask), decoder_dict)

C4_Witness ==
    /\ Collated
    /\ cfg.encoder_mask
    /\ cfg.seq_length = MaxTokens - 1
    /\ Len(tokenizer_out.enc.masked_tokens) = 2
    /\ Len(tokenizer_out.enc.masked_tokens[1]) = MaxTokens
    /\ Len(tokenizer_out.enc.masked_tokens[2]) = 1
    /\ Len(encoder_dict.tokens[1]) = MaxTokens - 1
    /\ Len(encoder_dict.mask[1]) = MaxTokens - 1
    /\ Len(encoder_dict.tokens[2]) = 1

(***************************************************************************)
(* Properties of decode and sample_molecules.                              *)
(***************************************************************************)
Decoding == pc \in {"loop", "returned", "pruned", "raised"}

DecodeReturned == pc \in {"returned", "pruned"}

Items == 1..batch_size

Contains(seq, x) == \E j \in 1..Len(seq) : seq[j] = x

\* C5: decode starts every item with bos_id alone and performs exactly
\* num_tokens_to_generate iterations, each appending one token to every item,
\* with no early exit; on return every sequence has length 1 + that budget.
C5_FixedBudget ==
    /\ Decoding =>
        /\ Len(predicted_tokens_dec) = batch_size
        /\ step <= num_tokens_to_generate
        /\ \A i \in Items :
            /\ Len(predicted_tokens_dec[i]) = 1 + step
            /\ predicted_tokens_dec[i][1] = bos_id
    /\ DecodeReturned =>
        /\ step = num_tokens_to_generate
        /\ \A i \in Items : Len(predicted_tokens_dec[i]) = 1 + num_tokens_to_generate

C5_Witness ==
    /\ pc = "returned"
    /\ batch_size = 2
    /\ num_tokens_to_generate >= 2
    /\ \A i \in Items :
        /\ predicted_tokens_dec[i][2] = eos_id
        /\ Len(predicted_tokens_dec[i]) = 1 + num_tokens_to_generate

\* C6: sample_molecules trims each sequence on its own: with eos_id in it, to
\* the prefix strictly before the first eos_id (pad ids in the prefix kept);
\* without, to the sequence with every pad_id removed and the rest in order.
\* The trimmed sequence holds no eos_id.
C6_Trim ==
    pc = "pruned" =>
        /\ Len(predicted_tokens_ids) = batch_size
        /\ \A i \in Items :
            LET s == predicted_tokens_dec[i]
                t == predicted_tokens_ids[i]
            IN  /\ ~Contains(t, eos_id)
                /\ IF Contains(s, eos_id)
                   THEN \E k \in 1..Len(s) :
                            /\ s[k] = eos_id
                            /\ \A j \in 1..(k - 1) : s[j] # eos_id
                            /\ t = SubSeq(s, 1, k - 1)
                   ELSE t = SelectSeq(s, LAMBDA x : x # pad_id)

C6_Witness ==
    /\ pc = "pruned"
    /\ \E i, k \in Items :
        /\ Contains(predicted_tokens_dec[i], eos_id)
        /\ Contains(predicted_tokens_ids[i], pad_id)
        /\ ~Contains(predicted_tokens_dec[k], eos_id)
        /\ predicted_tokens_dec[k][2] = pad_id
        /\ predicted_tokens_ids[k] = <<bos_id, Vocabulary["C"]>>

\* TRUE when seq holds a pad_id before its first eos_id.
PadBeforeEos(seq) ==
    \E k \in 1..Len(seq) :
        /\ seq[k] = eos_id
        /\ \A j \in 1..(k - 1) : seq[j] # eos_id
        /\ \E j \in 1..(k - 1) : seq[j] = pad_id

\* C7 as stated: trimming a trimmed sequence again changes nothing.
C7_TrimIdempotent ==
    pc = "pruned" =>
        \A i \in Items : Prune(predicted_tokens_ids[i]) = predicted_tokens_ids[i]

\* C7 amended: trimming again changes nothing exactly for the decoded
\* sequences that hold no pad_id before their first eos_id (among them every
\* sequence without eos_id); for the others the second trim removes the pad
\* ids the first one kept and the result is shorter.
C7_TrimIdempotentUnlessPadBeforeEos ==
    pc = "pruned" =>
        \A i \in Items :
            LET t == predicted_tokens_ids[i]
            IN  IF PadBeforeEos(predicted_tokens_dec[i])
                THEN Len(Prune(t)) < Len(t)
                ELSE Prune(t) = t

C7_Witness ==
    /\ pc = "pruned"
    /\ \E i, k \in Items :
        /\ PadBeforeEos(predicted_tokens_dec[i])
        /\ Prune(predicted_tokens_ids[i]) # predicted_tokens_ids[i]
        /\ ~Contains(predicted_tokens_dec[k], eos_id)
        /\ Contains(predicted_tokens_dec[k], pad_id)
        /\ Prune(predicted_tokens_ids[k]) = predicted_tokens_ids[k]

\* C8 as stated: the decoder mask of every iteration is all-active.
C8_MaskAllActive ==
    (Decoding /\ step >= 1) =>
        \A i \in Items : \A j \in 1..Len(dec_mask[i]) : dec_mask[i][j]

\* C8 amended: the decoder mask of an iteration covers the partial sequences
\* the iteration started from and is inactive exactly at the positions that
\* hold pad_id; the first position (bos_id) is always active.
C8_MaskMarksPad ==
    (Decoding /\ step >= 1) =>
        /\ Len(dec_mask) = batch_size
        /\ \A i \in Items :
            /\ Len(dec_mask[i]) = step
            /\ dec_mask[i][1]
            /\ \A j \in 1..step : dec_mask[i][j] <=> (predicted_tokens_dec[i][j] # pad_id)

C8_Witness ==
    /\ pc = "loop"
    /\ step >= 2
    /\ \E i \in Items :
        /\ predicted_tokens_dec[i][2] = pad_id
        /\ ~dec_mask[i][2]
        /\ dec_mask[i][1]

HasFiniteValidLogit(row) == \E v \in 0..(vocab_size - 1) : row[v] # NegInf

\* C9: every id decode appends is the greedy choice over the last position's
\* logits with the ids from vocab_size on excluded: whenever some id below
\* vocab_size has a finite logit, the appended id is below vocab_size, no id
\* below vocab_size has a larger logit and none before it has an equal one.
C9_GreedyWithinVocab ==
    Decoding =>
        \A i \in Items : \A n \in 1..step :
            LET row == token_logits[i][n]
                tok == predicted_tokens_dec[i][n + 1]
            IN  HasFiniteValidLogit(row) =>
                    /\ tok < vocab_size
                    /\ \A v \in 0..(vocab_size - 1) : row[v] <= row[tok]
                    /\ \A v \in 0..(tok - 1) : row[v] < row[tok]

C9_Witness ==
    /\ pc = "returned"
    /\ \E i \in Items : \E n \in 1..step :
        /\ HasFiniteValidLogit(token_logits[i][n])
        /\ \A v \in 0..(vocab_size - 1) : token_logits[i][n][v] < token_logits[i][n][vocab_size]
        /\ predicted_tokens_dec[i][n + 1] = Vocabulary["C"]
    /\ \E i \in Items : \E n \in 1..step :
        /\ token_logits[i][n][eos_id] = token_logits[i][n][Vocabulary["C"]]
        /\ predicted_tokens_dec[i][n + 1] = eos_id

(***************************************************************************)
(* Properties of _smiles_augmeter_func.                                    *)
(***************************************************************************)
Parseable == \A p \in 1..Len(smiles) : smiles[p] \in AtomSymbols

AugmentCalled == pc \in {"augmented", "augment_raised"}

\* The fallback the documentation names.
DocumentedFallback ==
    IF canonicalize_input THEN aug_result.canon_smiles
    ELSE CanonicalSmiles(MolFromSmiles(smiles))

\* C10 as stated: with augment_data set, no parseable input makes
\* _smiles_augmeter_func raise.
C10_NeverThrows ==
    (AugmentCalled /\ Parseable /\ augment_data) => pc = "augmented"

\* C10 amended: with augment_data set and a parseable input, the call raises
\* exactly when the canonical rendering of the unmodified molecule is needed
\* (canonicalize_input, or the fallback without it) and fails, or when a result
\* is the empty string (the assertions; the empty input is one such case).
\* Otherwise it returns the non-canonical rendering of the reordered molecule,
\* or, when that rendering raised RuntimeError, canonical_target if
\* canonicalize_input and else the canonical rendering of the unmodified
\* molecule; canonical_target is that canonical rendering if
\* canonicalize_input and else the input string.
C10_AugmentFallback ==
    (AugmentCalled /\ Parseable /\ augment_data) =>
        LET canonical_needed == canonicalize_input \/ render_fails.augmented
            throws == \/ canonical_needed /\ render_fails.canonical
                      \/ Len(smiles) = 0
        IN  /\ (pc = "augment_raised") <=> throws
            /\ pc = "augmented" =>
                /\ Len(aug_result.aug_smiles) > 0
                /\ Len(aug_result.canon_smiles) > 0
                /\ aug_result.canon_smiles =
                        IF canonicalize_input THEN CanonicalSmiles(MolFromSmiles(smiles))
                        ELSE smiles
                /\ IF render_fails.augmented
                   THEN aug_result.aug_smiles = DocumentedFallback
                   ELSE /\ aug_result.aug_smiles =
                                NonCanonicalSmiles(RenumberAtoms(MolFromSmiles(smiles), atom_order))
                        /\ aug_result.aug_smiles[1] = smiles[atom_order[1]]

C10_Witness ==
    /\ pc = "augmented"
    /\ augment_data
    /\ ~canonicalize_input
    /\ render_fails.augmented
    /\ smiles = <<"O", "C">>
    /\ atom_order = <<2, 1>>
    /\ aug_result.aug_smiles = <<"C", "O">>
    /\ aug_result.canon_smiles = <<"O", "C">>

(***************************************************************************)
(* Properties of the molecular-accuracy path.                              *)
(***************************************************************************)
\* C11 as stated: for every batch and every generation budget, a budget of 0
\* included, decode and the molecular-accuracy path built on it return a
\* result and never raise.
C11_DecodingNeverRaises == pc # "raised"

\* The string calculate_molecular_accuracy parses for item i.
SampledSmiles(i) == tokens_to_text(ids_to_tokens(predicted_tokens_ids))[i]

\* C12 as stated: an item whose decoded string fails to parse is counted as
\* invalid and never as a match, whatever its target string is, so that
\* num_correct + num_invalid <= total; items are compared with target_smiles
\* position by position.
C12_InvalidNeverCorrect ==
    pc = "accuracy" =>
        /\ molecular_result.total = batch_size
        /\ \A i \in 1..batch_size :
            /\ molecular_result.invalid[i] <=> (MolFromSmiles(SampledSmiles(i)) = None)
            /\ molecular_result.invalid[i] => ~molecular_result.correct[i]
            /\ ~molecular_result.invalid[i] =>
                    (molecular_result.correct[i] <=>
                        target_smiles[i] = CanonicalSmiles(MolFromSmiles(SampledSmiles(i))))
        /\ molecular_result.num_correct + molecular_result.num_invalid
                <= molecular_result.total

(***************************************************************************)
(* Properties of calculate_character_accuracy.                             *)
(***************************************************************************)
CharReturned == pc = "char_returned"

\* The positions of the batch.
CharPositions ==
    { p \in (1..Len(char_batch.loss_mask)) \X (1..MaxPositions) :
        p[2] <= Len(char_batch.loss_mask[p[1]]) }

ActivePositions == { p \in CharPositions : char_batch.loss_mask[p[1]][p[2]] = 1 }

\* The positions whose argmax id equals the label id.
PredictedRight ==
    { p \in CharPositions :
        ArgMaxId(char_batch.token_logits[p[1]][p[2]]) = char_batch.labels[p[1]][p[2]] }

\* The batch with the logits and labels of its inactive positions replaced.
InactiveReplaced(logit_row, label) ==
    [token_logits |->
        [i \in 1..Len(char_batch.token_logits) |->
            [j \in 1..Len(char_batch.token_logits[i]) |->
                IF <<i, j>> \in ActivePositions
                THEN char_batch.token_logits[i][j] ELSE logit_row]],
     labels |->
        [i \in 1..Len(char_batch.labels) |->
            [j \in 1..Len(char_batch.labels[i]) |->
                IF <<i, j>> \in ActivePositions THEN char_batch.labels[i][j] ELSE label]],
     loss_mask |-> char_batch.loss_mask]

\* C13: calculate_character_accuracy returns the number of active positions
\* (loss_mask = 1) whose argmax id equals the label, divided by the number of
\* active positions; inactive positions never change the result; the result is
\* 1.0 when every active position is predicted right and 0.9 when exactly one
\* of 10 active positions is mispredicted.
C13_CharacterAccuracy ==
    CharReturned =>
        /\ char_result.total = Cardinality(ActivePositions)
        /\ char_result.num_correct = Cardinality(ActivePositions \cap PredictedRight)
        /\ \A logit_row \in {PeakAt(pad_id), PeakAt(Vocabulary["C"])} :
           \A label \in {pad_id, Vocabulary["C"], -1} :
                LET other == InactiveReplaced(logit_row, label)
                IN  CharacterCounts(other.token_logits, other.labels, other.loss_mask)
                        = char_result
        /\ ActivePositions \subseteq PredictedRight
                => char_result.num_correct = char_result.total
        /\ (/\ Cardinality(ActivePositions) = 10
            /\ Cardinality(ActivePositions \ PredictedRight) = 1)
                => char_result.num_correct * 10 = 9 * char_result.total

\* Ten active positions of which one is mispredicted, while an inactive
\* position is predicted right.
C13_Witness ==
    /\ CharReturned
    /\ Cardinality(ActivePositions) = 10
    /\ Cardinality(ActivePositions \ PredictedRight) = 1
    /\ (CharPositions \ ActivePositions) \cap PredictedRight # {}
    /\ char_result = [num_correct |-> 9, total |-> 10]

(***************************************************************************)
(* The cut of _check_seq_len, item by item.                                *)
(***************************************************************************)
\* The first min(Len(seq), n) elements of seq.
OwnPrefix(seq, n) == SubSeq(seq, 1, Min2(Len(seq), n))

PerItemTruncation(tokens, mask, out) ==
    /\ Len(out.tokens) = Len(tokens)
    /\ Len(out.mask) = Len(mask)
    /\ \A i \in 1..Len(tokens) :
        /\ out.tokens[i] = OwnPrefix(tokens[i], cfg.seq_length)
        /\ out.mask[i] = OwnPrefix(mask[i], cfg.seq_length)
        /\ Len(tokens[i]) <= cfg.seq_length =>
                out.tokens[i] = tokens[i] /\ out.mask[i] = mask[i]
        /\ Len(out.tokens[i]) <= cfg.seq_length
        /\ Len(out.mask[i]) <= cfg.seq_length

\* C14: the cut that the longest sequence of the batch triggers equals a cut
\* item by item: for every seq_length >= 0 each returned sequence is the
\* item's own first min(len, seq_length) tokens, a sequence no longer than
\* seq_length is returned unchanged whatever the rest of the batch is, and
\* after _prepare_tokens no sequence is longer than seq_length.
C14_PerItemTruncation ==
    Collated =>
        /\ cfg.seq_length >= 0
        /\ PerItemTruncation(RoleTokens("enc", cfg.encoder_mask),
                             RoleMask("enc", cfg.encoder_mask), encoder_dict)
        /\ PerItemTruncation(RoleTokens("dec", cfg.decoder_mask),
                             RoleMask("dec", cfg.decoder_mask), decoder_dict)

\* A decoder batch of two: the first item exceeds seq_length and is cut, the
\* second does not and is returned as it was.
C14_Witness ==
    /\ Collated
    /\ cfg.seq_length = MaxTokens - 1
    /\ Len(RoleTokens("dec", cfg.decoder_mask)) = 2
    /\ Len(RoleTokens("dec", cfg.decoder_mask)[1]) > cfg.seq_length
    /\ Len(RoleTokens("dec", cfg.decoder_mask)[2]) < cfg.seq_length
    /\ Len(decoder_dict.tokens[1]) = cfg.seq_length
    /\ decoder_dict.tokens[2] = RoleTokens("dec", cfg.decoder_mask)[2]

====
